---- MODULE Spec2Model ----
(***************************************************************************)
(* A model of ubs_cresus_converter.py: the rule store                      *)
(* (load_cleaning_rules), the rule application engine                      *)
(* (apply_cleaning_rules), the description composer (clean_description)    *)
(* and the per-record loop of convert_ubs_to_cresus.                       *)
(*                                                                         *)
(* A Python str is a sequence of one-character strings.  Two accented      *)
(* letters of the source are written as the symbols "u^" (u circumflex)    *)
(* and "e'" (e acute); each stands for one character.  The only whitespace *)
(* character of the modelled alphabet is the space.                        *)
(***************************************************************************)
EXTENDS Integers, Sequences, FiniteSets, TLC

VARIABLES
    pc,            \* position of the modelled call
    rules_config,  \* the rule configuration in use
    text,          \* apply_cleaning_rules: the local variable text
    phase,         \* apply_cleaning_rules: which loop / block is running
    idx,           \* apply_cleaning_rules: index of the next rule of the loop
    input,         \* apply_cleaning_rules: the argument of the running call
    first,         \* result of the first call, kept to feed the second call
    pass,          \* 1 for the first call, 2 for the call on its own output
    exc,           \* name of the exception raised, "" when none
    desc,          \* clean_description: <<desc1, desc2, desc3>>
    parts,         \* clean_description: the list parts
    path,          \* clean_description: "early", "fallback" or "structured"
    result,        \* clean_description: the local variable result
    applied,       \* clean_description: line 211 was executed
    resource,      \* convert: state of cleaning_rules.json
    warned,        \* convert: load_cleaning_rules printed its warning
    row,           \* convert: the record being processed
    nread,         \* convert: number of records read so far
    log,           \* convert: outcome of each record read, in input order
    transactions,  \* convert: the list transactions
    skipped        \* convert: the list skipped

vars == <<pc, rules_config, text, phase, idx, input, first, pass, exc,
          desc, parts, path, result, applied,
          resource, warned, row, nread, log, transactions, skipped>>

apply_vars == <<text, phase, idx, input, first, pass>>
desc_vars == <<desc, parts, path, result, applied>>
conv_vars == <<resource, warned, row, nread, log, transactions, skipped>>

-----------------------------------------------------------------------------
(* Bounds of the model *)

MaxTextLen == 3
MaxSimpleRules == 2
MaxRows == 2

-----------------------------------------------------------------------------
(* Character classes of the regular expressions *)

WS == {" "}
DIGITS == {"0", "1", "2", "3", "4", "5", "6", "7", "8", "9"}
LOWER == {"a", "b", "c", "d", "e", "f", "g", "h", "i", "j", "k", "l", "m",
          "n", "o", "p", "q", "r", "s", "t", "u", "v", "w", "x", "y", "z"}
UPPER == {"A", "B", "C", "D", "E", "F", "G", "H", "I", "J", "K", "L", "M",
          "N", "O", "P", "Q", "R", "S", "T", "U", "V", "W", "X", "Y", "Z"}
WORDCH == LOWER \cup UPPER \cup DIGITS \cup {"_", "u^", "e'"}

-----------------------------------------------------------------------------
(* Python str operations *)

SetMax(S) == CHOOSE m \in S : \A n \in S : n <= m
SetMin(S) == CHOOSE m \in S : \A n \in S : m <= n

\* s[i:] and s[:n] with Python's clamping
From(s, i) == IF i > Len(s) THEN <<>> ELSE SubSeq(s, i, Len(s))
Upto(s, n) == IF n >= Len(s) THEN s ELSE SubSeq(s, 1, n)

\* lit occurs in s starting at position i (1-based)
IsAt(lit, s, i) ==
    /\ i >= 1
    /\ i + Len(lit) - 1 <= Len(s)
    /\ \A k \in 1..Len(lit) : s[i + k - 1] = lit[k]

\* lit in s
Contains(lit, s) == \E i \in 1..(Len(s) - Len(lit) + 1) : IsAt(lit, s, i)

\* s.rstrip(chars), s.lstrip(chars), s.strip(chars)
RStrip(s, cs) ==
    LET keep == {i \in 1..Len(s) : s[i] \notin cs}
    IN  IF keep = {} THEN <<>> ELSE SubSeq(s, 1, SetMax(keep))
LStrip(s, cs) ==
    LET keep == {i \in 1..Len(s) : s[i] \notin cs}
    IN  IF keep = {} THEN <<>> ELSE SubSeq(s, SetMin(keep), Len(s))
Strip(s, cs) == LStrip(RStrip(s, cs), cs)

\* s.replace(old, new) for a non-empty old: every non-overlapping occurrence,
\* left to right
RECURSIVE ReplaceFrom(_, _, _, _)
ReplaceFrom(s, i, old, new) ==
    IF i > Len(s) THEN <<>>
    ELSE IF IsAt(old, s, i) THEN new \o ReplaceFrom(s, i + Len(old), old, new)
    ELSE <<s[i]>> \o ReplaceFrom(s, i + 1, old, new)

\* s.replace("", new): new before every character and at the end
RECURSIVE Interleave(_, _, _)
Interleave(s, i, new) ==
    IF i > Len(s) THEN new
    ELSE new \o <<s[i]>> \o Interleave(s, i + 1, new)

str_replace(s, old, new) ==
    IF old = <<>> THEN Interleave(s, 1, new) ELSE ReplaceFrom(s, 1, old, new)

\* sep.join(xs)
RECURSIVE Join(_, _)
Join(sep, xs) ==
    IF xs = <<>> THEN <<>>
    ELSE IF Len(xs) = 1 THEN xs[1]
    ELSE xs[1] \o sep \o Join(sep, Tail(xs))

-----------------------------------------------------------------------------
(* Regular-expression substitutions with a fixed pattern *)

\* end (exclusive) of the longest run of characters in cs that starts at i
RECURSIVE RunEnd(_, _, _)
RunEnd(s, i, cs) ==
    IF i <= Len(s) /\ s[i] \in cs THEN RunEnd(s, i + 1, cs) ELSE i

\* end (exclusive) of the longest run of characters not in cs starting at i
RECURSIVE RunEndNot(_, _, _)
RunEndNot(s, i, cs) ==
    IF i <= Len(s) /\ s[i] \notin cs THEN RunEndNot(s, i + 1, cs) ELSE i

\* re.sub(r'\s+', ' ', s)
RECURSIVE CollapseFrom(_, _)
CollapseFrom(s, i) ==
    IF i > Len(s) THEN <<>>
    ELSE IF s[i] \in WS THEN <<" ">> \o CollapseFrom(s, RunEnd(s, i, WS))
    ELSE <<s[i]>> \o CollapseFrom(s, i + 1)
CollapseSpaces(s) == CollapseFrom(s, 1)

\* re.sub(r'\(\s*\)', '', s)
RECURSIVE RemoveParensFrom(_, _)
RemoveParensFrom(s, i) ==
    IF i > Len(s) THEN <<>>
    ELSE LET j == RunEnd(s, i + 1, WS)
         IN  IF s[i] = "(" /\ j <= Len(s) /\ s[j] = ")"
             THEN RemoveParensFrom(s, j + 1)
             ELSE <<s[i]>> \o RemoveParensFrom(s, i + 1)
RemoveEmptyParens(s) == RemoveParensFrom(s, 1)

-----------------------------------------------------------------------------
(* Values returned or raised by a call *)

Ok(t) == [exc |-> "", text |-> t]
Raise(e) == [exc |-> e, text |-> <<>>]

-----------------------------------------------------------------------------
(* Rule configurations                                                     *)
(*                                                                         *)
(* A literal rule is [keys, search, replace, enabled, full_replacement]:   *)
(* keys is the set of keys among 'search' and 'replace' the rule object    *)
(* holds; enabled and full_replacement hold the value rule.get(...) gives. *)
(* A pattern rule is [keys, valid, cls, replace, enabled,                  *)
(* full_replacement]: its pattern is the regular expression [cls]+, or a   *)
(* string re.compile rejects when valid is FALSE.                          *)

LitRule(s, r, en, full) ==
    [keys |-> {"search", "replace"}, search |-> s, replace |-> r,
     enabled |-> en, full_replacement |-> full]

RxRule(ok, cs, r, en, full) ==
    [keys |-> {"pattern", "replace"}, valid |-> ok, cls |-> cs, replace |-> r,
     enabled |-> en, full_replacement |-> full]

CleanupOpts(dup, semi, colon, paren, trim, maxlen) ==
    [remove_duplicate_spaces |-> dup, remove_trailing_semicolons |-> semi,
     remove_trailing_colons |-> colon, remove_empty_parentheses |-> paren,
     trim_whitespace |-> trim, max_length |-> maxlen]

\* the cleanup_options of default_rules
DefaultCleanup == CleanupOpts(TRUE, TRUE, TRUE, TRUE, TRUE, 0)

Config(en, simple, regex, custom, cleanup, sep) ==
    [kind |-> "dict", enabled |-> en, simple_replacements |-> simple,
     regex_replacements |-> regex, custom_replacements |-> custom,
     cleanup_options |-> cleanup, separator |-> sep]

\* rules_config=None, and a configuration file holding {}
NoneConfig == [kind |-> "None"]
EmptyConfig == [kind |-> "empty"]

\* the truth value Python gives `if rules_config:`
Truthy(cfg) == cfg.kind = "dict"

DefaultSeparator == <<" ", "|", " ">>

\* default_rules of load_cleaning_rules
default_rules ==
    Config(TRUE, <<>>, <<>>, <<>>, DefaultCleanup, DefaultSeparator)

-----------------------------------------------------------------------------
(* apply_cleaning_rules *)

\* ApplyLiteralRule with full_replacement ignored: only the matched span is
\* replaced
ApplyLiteralRuleSpanOnly(rule, t) ==
    IF ~rule.enabled THEN Ok(t)
    ELSE IF "search" \notin rule.keys THEN Raise("KeyError")
    ELSE IF "replace" \notin rule.keys THEN Raise("KeyError")
    ELSE Ok(str_replace(t, rule.search, rule.replace))

\* one iteration of the loop over simple_replacements (and of the identical
\* loop over custom_replacements)
ApplyLiteralRule(rule, t) ==
    IF ~rule.enabled THEN Ok(t)
    ELSE IF "search" \notin rule.keys THEN Raise("KeyError")
    ELSE IF rule.full_replacement
         THEN IF ~Contains(rule.search, t) THEN Ok(t)
              ELSE IF "replace" \notin rule.keys THEN Raise("KeyError")
              ELSE Ok(rule.replace)
         ELSE IF "replace" \notin rule.keys THEN Raise("KeyError")
              ELSE Ok(str_replace(t, rule.search, rule.replace))

\* re.sub(pattern, repl, s) for the pattern [cs]+
RECURSIVE SubClassFrom(_, _, _, _)
SubClassFrom(s, i, cs, repl) ==
    IF i > Len(s) THEN <<>>
    ELSE IF s[i] \in cs THEN repl \o SubClassFrom(s, RunEnd(s, i, cs), cs, repl)
    ELSE <<s[i]>> \o SubClassFrom(s, i + 1, cs, repl)

\* one iteration of the loop over regex_replacements
ApplyRegexRule(rule, t) ==
    IF ~rule.enabled THEN Ok(t)
    ELSE IF "pattern" \notin rule.keys THEN Raise("KeyError")
    ELSE IF ~rule.valid THEN Raise("re.error")
    ELSE IF rule.full_replacement
         THEN IF ~(\E i \in 1..Len(t) : t[i] \in rule.cls) THEN Ok(t)
              ELSE IF "replace" \notin rule.keys THEN Raise("KeyError")
              ELSE Ok(rule.replace)
         ELSE IF "replace" \notin rule.keys THEN Raise("KeyError")
              ELSE Ok(SubClassFrom(t, 1, rule.cls, rule.replace))

\* the cleanup block, lines 113-132
Truncate(t, max_length) ==
    IF max_length > 0 /\ Len(t) > max_length
    THEN RStrip(Upto(t, max_length), WS)
    ELSE t

ApplyCleanup(cleanup, t) ==
    LET t1 == IF cleanup.remove_duplicate_spaces THEN CollapseSpaces(t) ELSE t
        t2 == IF cleanup.remove_trailing_semicolons THEN RStrip(t1, {";"}) ELSE t1
        t3 == IF cleanup.remove_trailing_colons THEN RStrip(t2, {":"}) ELSE t2
        t4 == IF cleanup.remove_empty_parentheses THEN RemoveEmptyParens(t3) ELSE t3
        t5 == IF cleanup.trim_whitespace THEN Strip(t4, WS) ELSE t4
    IN  Truncate(t5, cleanup.max_length)

\* the loops as folds: rules i.. of the list applied to r, stopping at a raise
RECURSIVE LiteralLoop(_, _, _)
LiteralLoop(rules, i, r) ==
    IF r.exc # "" \/ i > Len(rules) THEN r
    ELSE LiteralLoop(rules, i + 1, ApplyLiteralRule(rules[i], r.text))

RECURSIVE RegexLoop(_, _, _)
RegexLoop(rules, i, r) ==
    IF r.exc # "" \/ i > Len(rules) THEN r
    ELSE RegexLoop(rules, i + 1, ApplyRegexRule(rules[i], r.text))

\* apply_cleaning_rules(text, rules_config) as one call
apply_cleaning_rules(t, cfg) ==
    IF ~cfg.enabled THEN Ok(t)
    ELSE LET r1 == LiteralLoop(cfg.simple_replacements, 1, Ok(t))
             r2 == RegexLoop(cfg.regex_replacements, 1, r1)
             r3 == LiteralLoop(cfg.custom_replacements, 1, r2)
         IN  IF r3.exc # "" THEN r3
             ELSE Ok(ApplyCleanup(cfg.cleanup_options, r3.text))

-----------------------------------------------------------------------------
(* Regular expressions                                                     *)
(*                                                                         *)
(* A pattern is a sequence of items: [t |-> "lit", v |-> s] a literal,     *)
(* [t |-> "one", c |-> S] one character of the class S, "star" and "plus"  *)
(* the greedy S* and S+ (of the complement [^S] when neg is TRUE),         *)
(* [t |-> "opt", v |-> s] the greedy (s)?, and [t |-> "end"] the anchor $. *)
(* Matching backtracks as the re module does: a greedy item first takes    *)
(* all it can and gives characters back one at a time.                     *)

Lit(s) == [t |-> "lit", v |-> s]
One(cs) == [t |-> "one", c |-> cs]
Star(cs) == [t |-> "star", c |-> cs, neg |-> FALSE]
Plus(cs) == [t |-> "plus", c |-> cs, neg |-> FALSE]
StarNot(cs) == [t |-> "star", c |-> cs, neg |-> TRUE]
PlusNot(cs) == [t |-> "plus", c |-> cs, neg |-> TRUE]
Opt(s) == [t |-> "opt", v |-> s]
AtEnd == [t |-> "end"]

\* end (exclusive) of the longest run item it can take from position i
ItemRunEnd(s, i, it) ==
    IF it.neg THEN RunEndNot(s, i, it.c) ELSE RunEnd(s, i, it.c)

RECURSIVE MatchEnd(_, _, _, _)
RECURSIVE GiveBack(_, _, _, _, _)

\* the position after the match of items k.. at position i, 0 when there is
\* no match
MatchEnd(s, i, items, k) ==
    IF k > Len(items) THEN i
    ELSE LET it == items[k]
         IN  CASE it.t = "lit" ->
                    IF IsAt(it.v, s, i)
                    THEN MatchEnd(s, i + Len(it.v), items, k + 1) ELSE 0
               [] it.t = "one" ->
                    IF i <= Len(s) /\ s[i] \in it.c
                    THEN MatchEnd(s, i + 1, items, k + 1) ELSE 0
               [] it.t = "star" ->
                    GiveBack(s, ItemRunEnd(s, i, it), i, items, k)
               [] it.t = "plus" ->
                    GiveBack(s, ItemRunEnd(s, i, it), i + 1, items, k)
               [] it.t = "opt" ->
                    LET with == IF IsAt(it.v, s, i)
                                THEN MatchEnd(s, i + Len(it.v), items, k + 1)
                                ELSE 0
                    IN  IF with > 0 THEN with
                        ELSE MatchEnd(s, i, items, k + 1)
               [] it.t = "end" ->
                    IF i = Len(s) + 1
                    THEN MatchEnd(s, i, items, k + 1) ELSE 0

\* item k has taken the characters up to n (exclusive) and may not end
\* before lo: the first n, from the longest down, after which the rest
\* matches
GiveBack(s, n, lo, items, k) ==
    IF n < lo THEN 0
    ELSE LET e == MatchEnd(s, n, items, k + 1)
         IN  IF e > 0 THEN e ELSE GiveBack(s, n - 1, lo, items, k)

\* re.search(items, s): [start, end) of the leftmost match, start 0 if none
RECURSIVE SearchFrom(_, _, _)
SearchFrom(s, i, items) ==
    IF i > Len(s) + 1 THEN [start |-> 0, end |-> 0]
    ELSE LET e == MatchEnd(s, i, items, 1)
         IN  IF e > 0 THEN [start |-> i, end |-> e]
             ELSE SearchFrom(s, i + 1, items)
ReSearch(items, s) == SearchFrom(s, 1, items)

\* re.sub(items, repl, s), for a pattern that matches no empty string
RECURSIVE SubFrom(_, _, _, _)
SubFrom(s, i, items, repl) ==
    IF i > Len(s) THEN <<>>
    ELSE LET e == MatchEnd(s, i, items, 1)
         IN  IF e > i THEN repl \o SubFrom(s, e, items, repl)
             ELSE <<s[i]>> \o SubFrom(s, i + 1, items, repl)
ReSub(items, repl, s) == SubFrom(s, 1, items, repl)

-----------------------------------------------------------------------------
(* String literals of clean_description *)

MOTIF_LABEL ==
    <<"M", "o", "t", "i", "f", " ", "d", "u", " ", "p", "a", "i", "e",
      "m", "e", "n", "t", ":">>
QRR_LABEL ==
    <<"R", "e", "f", "e", "r", "e", "n", "c", "e", " ", "n", "o", ".",
      " ", "Q", "R", "R", ":">>
IBAN_LABEL ==
    <<"A", "c", "c", "o", "u", "n", "t", " ", "n", "o", ".", " ", "I",
      "B", "A", "N", ":">>
COUTS_LABEL == <<"C", "o", "u^", "t", "s", ":">>
NOTX_LABEL ==
    <<"N", "o", " ", "d", "e", " ", "t", "r", "a", "n", "s", "a", "c",
      "t", "i", "o", "n", ":">>
SWIFT == <<"S", "W", "I", "F", "T">>
QRR_PREFIX == <<"R", "e'", "f", ".", " ", "Q", "R", "R", ":", " ">>
SENTINEL ==
    <<"T", "r", "a", "n", "s", "a", "c", "t", "i", "o", "n", " ", "b",
      "a", "n", "c", "a", "i", "r", "e">>

SEMI == {";"}

\* the patterns of clean_description, in the order of the source
RE_QRR == <<Lit(QRR_LABEL), Star(WS), Plus(DIGITS \cup {" "})>>
RE_MOTIF == <<Lit(MOTIF_LABEL), Star(WS), PlusNot(SEMI)>>
RE_ADDRESS ==
    <<Lit(<<";">>), StarNot(SEMI), One(DIGITS), One(DIGITS), One(DIGITS),
      One(DIGITS), StarNot(SEMI), Lit(<<";">>), StarNot(SEMI), AtEnd>>
RE_IBAN == <<Lit(IBAN_LABEL), Star(WS), PlusNot(SEMI), Opt(<<";">>)>>
RE_BI_C_SWIFT ==
    <<Lit(<<"B", "I">>), Star(WS), Lit(<<"C">>), Star(WS), Lit(<<"/">>),
      Star(WS), Lit(SWIFT), Plus(WS), Plus(WORDCH)>>
RE_BIC_SWIFT ==
    <<Lit(<<"B", "I", "C">>), Star(WS), Lit(<<"/">>), Star(WS), Lit(SWIFT),
      Plus(WS), Plus(WORDCH)>>
RE_COLON_BIC == <<Lit(<<":">>), Star(WS)>> \o RE_BI_C_SWIFT
RE_MOTIF_COUTS == <<Lit(COUTS_LABEL), Star(WS), PlusNot(SEMI), Opt(<<";">>)>>
RE_TRAILING_COLON == <<Star(WS), Lit(<<":">>), Star(WS), AtEnd>>
RE_COLON_SEMI == <<Star(WS), Lit(<<":">>), Star(WS), Lit(<<";">>)>>
RE_NOTX == <<Lit(NOTX_LABEL), PlusNot(SEMI), Opt(<<";">>)>>
RE_COUTS == <<Lit(COUTS_LABEL), PlusNot(SEMI), Opt(<<";">>)>>
RE_FOOTNOTE ==
    <<Lit(<<"(", "*">>), One(LOWER), Lit(<<")">>), StarNot(SEMI)>>

-----------------------------------------------------------------------------
(* clean_description *)

\* line 141: the stripped non-empty fields joined with single spaces
StrippedNonEmpty(ds) ==
    LET IsNonEmpty(d) == Strip(d, WS) # <<>>
        kept == SelectSeq(ds, IsNonEmpty)
    IN  [k \in 1..Len(kept) |-> Strip(kept[k], WS)]
FullDesc(ds) == Join(<<" ">>, StrippedNonEmpty(ds))

\* lines 150-151 and 154-155: group(1).strip() of the leftmost match, <<>>
\* when there is none; the group is what follows the label and the \s* run
Captured(items, label, s) ==
    LET m == ReSearch(items, s)
    IN  IF m.start = 0 THEN <<>>
        ELSE Strip(SubSeq(s, m.start + Len(label), m.end - 1), WS)
ExtractQrr(full_desc) == Captured(RE_QRR, QRR_LABEL, full_desc)
ExtractMotif(full_desc) == Captured(RE_MOTIF, MOTIF_LABEL, full_desc)

\* line 147 and line 162
Beneficiary(desc1) == ReSub(RE_ADDRESS, <<>>, Strip(desc1, WS))

\* lines 170-181
CleanMotif(motif) ==
    LET m1 == ReSub(RE_IBAN, <<>>, motif)
        m2 == ReSub(RE_BI_C_SWIFT, <<>>, m1)
        m3 == ReSub(RE_BIC_SWIFT, <<>>, m2)
        m4 == ReSub(RE_COLON_BIC, <<>>, m3)
        m5 == ReSub(RE_MOTIF_COUTS, <<>>, m4)
        m6 == ReSub(RE_TRAILING_COLON, <<>>, m5)
        m7 == ReSub(RE_COLON_SEMI, <<";">>, m6)
        m8 == Strip(CollapseSpaces(m7), WS)
    IN  Strip(m8, {";", " ", ":"})

\* line 183: the cleaned reason is appended
MotifWithExactCompare(motif, beneficiary) ==
    motif # <<>> /\ motif # beneficiary
AppendsMotif(motif, beneficiary) == MotifWithExactCompare(motif, beneficiary)

\* lines 158-184: the list parts
Parts(ds) ==
    LET full_desc == FullDesc(ds)
        beneficiary == Beneficiary(ds[1])
        qrr == ExtractQrr(full_desc)
        raw == ExtractMotif(full_desc)
        motif == CleanMotif(raw)
    IN  (IF Strip(ds[1], WS) # <<>> THEN <<beneficiary>> ELSE <<>>)
        \o (IF qrr # <<>> THEN <<QRR_PREFIX \o qrr>> ELSE <<>>)
        \o (IF raw # <<>> /\ AppendsMotif(motif, beneficiary)
            THEN <<motif>> ELSE <<>>)

\* lines 192-197
CleanSimple(d) ==
    LET c1 == ReSub(RE_NOTX, <<>>, Strip(d, WS))
        c2 == ReSub(RE_COUTS, <<>>, c1)
        c3 == ReSub(RE_FOOTNOTE, <<>>, c2)
    IN  Strip(CollapseSpaces(c3), WS)

\* lines 189-201
Fallback(ds) ==
    LET IsNonEmpty(d) == Strip(d, WS) # <<>> /\ CleanSimple(d) # <<>>
        kept == SelectSeq(<<ds[1], ds[2]>>, IsNonEmpty)
        simple_parts == [k \in 1..Len(kept) |-> CleanSimple(kept[k])]
    IN  IF simple_parts # <<>>
        THEN Join(DefaultSeparator, Upto(simple_parts, 2))
        ELSE SENTINEL

\* lines 204-207
Separator(cfg) == IF Truthy(cfg) THEN cfg.separator ELSE DefaultSeparator
Structured(ps, cfg) == Join(Separator(cfg), ps)

\* line 187: which branch composes the result
PathOf(ps) == IF Len(ps) <= 1 THEN "fallback" ELSE "structured"

Composed(ds, ps, cfg) ==
    IF PathOf(ps) = "fallback" THEN Fallback(ds) ELSE Structured(ps, cfg)

\* line 210 with the rule engine reserved to the structured branch
InvokesRulesStructuredOnly(p, cfg) == Truthy(cfg) /\ p = "structured"

\* line 210: apply_cleaning_rules is called on the result of branch p
InvokesRules(p, cfg) == Truthy(cfg)

\* line 213 without the final guard
FinalResultUnguarded(t) == t

\* line 213
FinalResult(t) == IF t # <<>> THEN t ELSE SENTINEL

\* clean_description(desc1, desc2, desc3, rules_config) as one call
clean_description(ds, cfg) ==
    IF FullDesc(ds) = <<>> THEN Ok(SENTINEL)
    ELSE LET ps == Parts(ds)
             composed == Composed(ds, ps, cfg)
             r == IF InvokesRules(PathOf(ps), cfg)
                  THEN apply_cleaning_rules(composed, cfg)
                  ELSE Ok(composed)
         IN  IF r.exc # "" THEN r ELSE Ok(FinalResult(r.text))

-----------------------------------------------------------------------------
(* Inputs of the rule application engine *)

TextAlphabet == {"a", "b", " ", ";", ":", "(", ")"}

SeqsUpTo(S, n) == UNION {[1..k -> S] : k \in 0..n}

Texts == SeqsUpTo(TextAlphabet, MaxTextLen)

\* full replacement on "a": the whole text becomes "b;"
RuleFullA == LitRule(<<"a">>, <<"b", ";">>, TRUE, TRUE)
\* normal replacement "b" -> "c"
RuleBtoC == LitRule(<<"b">>, <<"c">>, TRUE, FALSE)
\* a rule switched off
RuleOff == LitRule(<<";">>, <<"b">>, FALSE, FALSE)
\* a rule object without the key 'replace'
RuleNoReplace == [LitRule(<<":">>, <<>>, TRUE, FALSE) EXCEPT !.keys = {"search"}]

SimpleRules == {RuleFullA, RuleBtoC, RuleOff, RuleNoReplace}

\* [;:]+ -> "a", full replacement on [()]+, and a pattern that does not compile
RxPunct == RxRule(TRUE, {";", ":"}, <<"a">>, TRUE, FALSE)
RxFullParen == RxRule(TRUE, {"(", ")"}, <<"b">>, TRUE, TRUE)
RxInvalid == RxRule(FALSE, {}, <<>>, TRUE, FALSE)

RegexRules == {RxPunct, RxFullParen, RxInvalid}

\* normal replacement "a" -> "(", in the custom bucket
RuleAtoParen == LitRule(<<"a">>, <<"(">>, TRUE, FALSE)

CustomRules == {RuleAtoParen}

CleanupChoices ==
    { DefaultCleanup,
      CleanupOpts(FALSE, FALSE, FALSE, FALSE, FALSE, 0),
      CleanupOpts(TRUE, TRUE, TRUE, TRUE, FALSE, 0),
      [DefaultCleanup EXCEPT !.max_length = 2] }

\* configurations without substitution rules under every cleanup choice;
\* with the default cleanup, up to MaxSimpleRules literal rules alone, and
\* at most one literal rule with at most one pattern rule and one custom rule
ApplyConfigs ==
    { Config(en, <<>>, <<>>, <<>>, c, DefaultSeparator) :
        en \in BOOLEAN, c \in CleanupChoices }
    \cup
    { Config(TRUE, sr, <<>>, <<>>, DefaultCleanup, DefaultSeparator) :
        sr \in SeqsUpTo(SimpleRules, MaxSimpleRules) }
    \cup
    { Config(TRUE, sr, rr, cr, DefaultCleanup, DefaultSeparator) :
        sr \in SeqsUpTo(SimpleRules, 1),
        rr \in SeqsUpTo(RegexRules, 1),
        cr \in SeqsUpTo(CustomRules, 1) }

-----------------------------------------------------------------------------
(* apply_cleaning_rules, one loop iteration at a time, called on a text    *)
(* and then on its own result                                              *)

NoDesc == <<<<>>, <<>>, <<>>>>
NoRow == [kind |-> "none"]

InitApply ==
    /\ pc = "apply"
    /\ rules_config \in ApplyConfigs
    /\ input \in Texts
    /\ text = input
    /\ phase = "start"
    /\ idx = 1
    /\ first = <<>>
    /\ pass = 1
    /\ exc = ""
    /\ desc = NoDesc /\ parts = <<>> /\ path = "" /\ result = <<>>
    /\ applied = FALSE
    /\ resource = "" /\ warned = FALSE /\ row = NoRow /\ nread = 0
    /\ log = <<>> /\ transactions = <<>> /\ skipped = <<>>

\* line 74-75: a disabled configuration returns text unchanged
ApplyEnter ==
    /\ pc = "apply" /\ phase = "start"
    /\ phase' = IF rules_config.enabled THEN "simple" ELSE "done"
    /\ idx' = 1
    /\ UNCHANGED <<pc, rules_config, text, input, first, pass, exc>>
    /\ UNCHANGED <<desc_vars, conv_vars>>

\* the outcome r of one loop iteration, stored
StoreStep(r) ==
    /\ IF r.exc # ""
       THEN /\ phase' = "raised"
            /\ exc' = r.exc
            /\ UNCHANGED <<text, idx>>
       ELSE /\ text' = r.text
            /\ idx' = idx + 1
            /\ UNCHANGED <<phase, exc>>
    /\ UNCHANGED <<pc, rules_config, input, first, pass>>
    /\ UNCHANGED <<desc_vars, conv_vars>>

\* the loop bucket is exhausted: go on to the block `to`
LeaveLoop(bucket, to) ==
    /\ idx > Len(bucket)
    /\ phase' = to
    /\ idx' = 1
    /\ UNCHANGED <<pc, rules_config, text, input, first, pass, exc>>
    /\ UNCHANGED <<desc_vars, conv_vars>>

\* lines 80-88
SimpleStep ==
    /\ pc = "apply" /\ phase = "simple"
    /\ idx <= Len(rules_config.simple_replacements)
    /\ StoreStep(ApplyLiteralRule(rules_config.simple_replacements[idx], text))

\* SimpleEnd with the custom loop placed before the pattern loop
SimpleEndCustomFirst ==
    /\ pc = "apply" /\ phase = "simple"
    /\ LeaveLoop(rules_config.simple_replacements, "custom")

SimpleEnd ==
    /\ pc = "apply" /\ phase = "simple"
    /\ LeaveLoop(rules_config.simple_replacements, "regex")

\* lines 91-99
RegexStep ==
    /\ pc = "apply" /\ phase = "regex"
    /\ idx <= Len(rules_config.regex_replacements)
    /\ StoreStep(ApplyRegexRule(rules_config.regex_replacements[idx], text))

RegexEnd ==
    /\ pc = "apply" /\ phase = "regex"
    /\ LeaveLoop(rules_config.regex_replacements, "custom")

\* lines 102-110
CustomStep ==
    /\ pc = "apply" /\ phase = "custom"
    /\ idx <= Len(rules_config.custom_replacements)
    /\ StoreStep(ApplyLiteralRule(rules_config.custom_replacements[idx], text))

CustomEnd ==
    /\ pc = "apply" /\ phase = "custom"
    /\ LeaveLoop(rules_config.custom_replacements, "cleanup")

\* lines 113-134
CleanupStep ==
    /\ pc = "apply" /\ phase = "cleanup"
    /\ text' = ApplyCleanup(rules_config.cleanup_options, text)
    /\ phase' = "done"
    /\ UNCHANGED <<pc, rules_config, idx, input, first, pass, exc>>
    /\ UNCHANGED <<desc_vars, conv_vars>>

\* the caller applies the engine to the result of the first call
Reapply ==
    /\ pc = "apply" /\ phase = "done" /\ pass = 1
    /\ first' = text
    /\ input' = text
    /\ pass' = 2
    /\ phase' = "start"
    /\ idx' = 1
    /\ UNCHANGED <<pc, rules_config, text, exc>>
    /\ UNCHANGED <<desc_vars, conv_vars>>

NextApply ==
    \/ ApplyEnter
    \/ SimpleStep
    \/ SimpleEnd
    \/ RegexStep
    \/ RegexEnd
    \/ CustomStep
    \/ CustomEnd
    \/ CleanupStep
    \/ Reapply

SpecApply == InitApply /\ [][NextApply]_vars

-----------------------------------------------------------------------------
(* Claims about apply_cleaning_rules, checked under SpecApply *)

NoSubstitutionRules(cfg) ==
    /\ cfg.simple_replacements = <<>>
    /\ cfg.regex_replacements = <<>>
    /\ cfg.custom_replacements = <<>>

\* C3: apply_cleaning_rules is idempotent: with an enabled configuration
\* that has no substitution rules and the default cleanup options, applying
\* the engine to its own result returns that result unchanged.
C3_Idempotent ==
    ( /\ pc = "apply" /\ pass = 2 /\ phase = "done"
      /\ rules_config.enabled
      /\ NoSubstitutionRules(rules_config)
      /\ rules_config.cleanup_options = DefaultCleanup )
    => text = first

IsEnabledRule(r) == r.enabled
EnabledOnly(rules) == SelectSeq(rules, IsEnabledRule)

\* the result the claimed order gives: the enabled literal rules, then the
\* enabled pattern rules, then the enabled custom rules, then cleanup, each
\* on the output of the one before
InOrder(t, cfg) ==
    LET r1 == LiteralLoop(EnabledOnly(cfg.simple_replacements), 1, Ok(t))
        r2 == RegexLoop(EnabledOnly(cfg.regex_replacements), 1, r1)
        r3 == LiteralLoop(EnabledOnly(cfg.custom_replacements), 1, r2)
    IN  IF r3.exc # "" THEN r3
        ELSE Ok(ApplyCleanup(cfg.cleanup_options, r3.text))

PhaseSteps ==
    { <<"start", "simple">>, <<"start", "done">>, <<"simple", "regex">>,
      <<"regex", "custom">>, <<"custom", "cleanup">>, <<"cleanup", "done">>,
      <<"simple", "raised">>, <<"regex", "raised">>, <<"custom", "raised">>,
      <<"done", "start">> }

\* C4: an enabled configuration is processed strictly in the order literal
\* rules, pattern rules, custom rules, cleanup, every bucket in declared
\* order and every step on the output of the previous one; a rule whose
\* enabled flag is false changes neither the text nor what the rules after
\* it do.
C4_InOrder ==
    /\ [][ /\ phase' # phase => <<phase, phase'>> \in PhaseSteps
           /\ (phase' = phase /\ idx' # idx) => idx' = idx + 1
           /\ (phase = "start" /\ rules_config.enabled) => phase' = "simple"
         ]_vars
    /\ []( (pc = "apply" /\ phase = "done" /\ rules_config.enabled)
             => /\ InOrder(input, rules_config).exc = ""
                /\ text = InOrder(input, rules_config).text )
    /\ []( (pc = "apply" /\ phase = "raised")
             => InOrder(input, rules_config).exc = exc )

\* C4's case: the disabled literal rule ";" -> "b" is skipped, the pattern
\* rule then turns ";" into "a" and the custom rule turns that "a" into "("
C4_Witness ==
    /\ pc = "apply" /\ pass = 1 /\ phase = "done"
    /\ rules_config.simple_replacements = <<RuleOff>>
    /\ rules_config.regex_replacements = <<RxPunct>>
    /\ rules_config.custom_replacements = <<RuleAtoParen>>
    /\ input = <<"b", ";">>
    /\ text = <<"b", "(">>

IsFullThenNormal(rules) ==
    /\ Len(rules) >= 2
    /\ rules[1].enabled /\ rules[1].full_replacement
    /\ rules[1].keys = {"search", "replace"}
    /\ rules[2].enabled /\ ~rules[2].full_replacement
    /\ rules[2].keys = {"search", "replace"}

\* C5: with rule 1 a full replacement on A and rule 2 a normal replacement
\* of B by C, after both rules the text is the input with every B replaced
\* by C when the input does not contain A, and rule 1's replacement value
\* with every B replaced by C when it does.
C5_RuleOrdering ==
    ( /\ pc = "apply" /\ phase = "simple" /\ idx = 3
      /\ IsFullThenNormal(rules_config.simple_replacements) )
    => LET r1 == rules_config.simple_replacements[1]
           r2 == rules_config.simple_replacements[2]
       IN  text = IF Contains(r1.search, input)
                  THEN str_replace(r1.replace, r2.search, r2.replace)
                  ELSE str_replace(input, r2.search, r2.replace)

\* C5's case: the input contains A and B; rule 2 has acted on rule 1's
\* replacement value "b;"
C5_Witness ==
    /\ pc = "apply" /\ pass = 1 /\ phase = "simple" /\ idx = 3
    /\ rules_config.simple_replacements = <<RuleFullA, RuleBtoC>>
    /\ input = <<"b", "a", "b">>
    /\ text = <<"c", ";">>

-----------------------------------------------------------------------------
(* Inputs of clean_description *)

MaxFrags == 2

BOB == <<"B", "o", "b">>
\* a payee name written with two spaces
AL_BO == <<"A", "l", " ", " ", "B", "o">>
\* an address suffix with a four-digit token
ADDRESS == <<";", "1", "0", "0", "0", ";", "C", "H">>
BIC_CODE == <<"B", "I", "C", "/", "S", "W", "I", "F", "T", " ", "A", "B">>

Desc1Choices ==
    { <<>>, BOB, AL_BO, BOB \o ADDRESS, <<" ">> \o BOB \o <<" ">>,
      BOB \o <<";">>, NOTX_LABEL \o <<" ", "1">>, <<"(", "*", "a", ")", "x">> }

Desc2Frags ==
    { MOTIF_LABEL, QRR_LABEL, <<" ">> \o BOB, AL_BO, <<" ", "1", "2", " ", "3">>,
      <<";">>, BIC_CODE }

RECURSIVE Flatten(_)
Flatten(xs) == IF xs = <<>> THEN <<>> ELSE xs[1] \o Flatten(Tail(xs))

Desc2Choices == {Flatten(fs) : fs \in SeqsUpTo(Desc2Frags, MaxFrags)}

Desc3Choices == { <<>>, QRR_LABEL \o <<"7">> }

DescInputs ==
    {<<d1, d2, d3>> : d1 \in Desc1Choices, d2 \in Desc2Choices,
                      d3 \in Desc3Choices}

\* "Transaction" -> "Tx", parts joined with " / "
CfgTx ==
    Config(TRUE, <<LitRule(<<"T", "r", "a", "n", "s", "a", "c", "t", "i", "o", "n">>,
                           <<"T", "x">>, TRUE, FALSE)>>,
           <<>>, <<>>, DefaultCleanup, <<" ", "/", " ">>)
\* any text that contains "Bob" is replaced by the empty string
CfgErase ==
    Config(TRUE, <<LitRule(BOB, <<>>, TRUE, TRUE)>>, <<>>, <<>>,
           DefaultCleanup, DefaultSeparator)
\* a pattern rule whose pattern does not compile
CfgBadPattern ==
    Config(TRUE, <<>>, <<RxInvalid>>, <<>>, DefaultCleanup, DefaultSeparator)
\* enabled: false
CfgDisabled == [CfgTx EXCEPT !.enabled = FALSE]

DescConfigs ==
    { NoneConfig, EmptyConfig, default_rules, CfgDisabled, CfgTx, CfgErase,
      CfgBadPattern }

-----------------------------------------------------------------------------
(* clean_description, block by block *)

InitDesc ==
    /\ pc = "extract"
    /\ rules_config \in DescConfigs
    /\ desc \in DescInputs
    /\ parts = <<>> /\ path = "" /\ result = <<>> /\ applied = FALSE
    /\ exc = ""
    /\ text = <<>> /\ phase = "" /\ idx = 1 /\ input = <<>> /\ first = <<>>
    /\ pass = 1
    /\ resource = "" /\ warned = FALSE /\ row = NoRow /\ nread = 0
    /\ log = <<>> /\ transactions = <<>> /\ skipped = <<>>

\* lines 141-184: the early return, or the list parts
DescExtract ==
    /\ pc = "extract"
    /\ IF FullDesc(desc) = <<>>
       THEN /\ result' = SENTINEL
            /\ path' = "early"
            /\ pc' = "returned"
            /\ UNCHANGED parts
       ELSE /\ parts' = Parts(desc)
            /\ pc' = "compose"
            /\ UNCHANGED <<result, path>>
    /\ UNCHANGED <<rules_config, exc, desc, applied>>
    /\ UNCHANGED <<apply_vars, conv_vars>>

\* lines 187-207
DescCompose ==
    /\ pc = "compose"
    /\ path' = PathOf(parts)
    /\ result' = Composed(desc, parts, rules_config)
    /\ pc' = "rules"
    /\ UNCHANGED <<rules_config, exc, desc, parts, applied>>
    /\ UNCHANGED <<apply_vars, conv_vars>>

\* lines 210-211
DescRules ==
    /\ pc = "rules"
    /\ IF InvokesRules(path, rules_config)
       THEN LET r == apply_cleaning_rules(result, rules_config)
            IN  /\ applied' = TRUE
                /\ IF r.exc # ""
                   THEN exc' = r.exc /\ pc' = "raised" /\ UNCHANGED result
                   ELSE result' = r.text /\ pc' = "return" /\ UNCHANGED exc
       ELSE /\ pc' = "return"
            /\ UNCHANGED <<applied, result, exc>>
    /\ UNCHANGED <<rules_config, desc, parts, path>>
    /\ UNCHANGED <<apply_vars, conv_vars>>

\* line 213
DescReturn ==
    /\ pc = "return"
    /\ result' = FinalResult(result)
    /\ pc' = "returned"
    /\ UNCHANGED <<rules_config, exc, desc, parts, path, applied>>
    /\ UNCHANGED <<apply_vars, conv_vars>>

NextDesc ==
    \/ DescExtract
    \/ DescCompose
    \/ DescRules
    \/ DescReturn

SpecDesc == InitDesc /\ [][NextDesc]_vars

-----------------------------------------------------------------------------
(* Claims about clean_description, checked under SpecDesc *)

Finished == pc \in {"return", "returned", "raised"}

\* C1 as stated: the rule engine is invoked only on the structured path; a
\* call that takes the fallback path never passes through it.
C1_OnlyStructured == applied => path = "structured"

\* C1 as amended: once past line 211, the rule engine has been invoked
\* exactly when a branch composed a result (fallback or structured) and the
\* configuration passed is truthy; the early return never invokes it.
C1_RulesOnBothPaths ==
    Finished =>
        (applied <=> (path \in {"fallback", "structured"}
                      /\ Truthy(rules_config)))

\* C1's case: the fallback path was taken, the rule engine ran and changed
\* the composed result
C1_Witness ==
    /\ pc = "returned" /\ path = "fallback" /\ applied
    /\ result # Fallback(desc)

\* neither desc1 nor desc2 leaves text after the fallback cleaning
FallbackLeavesNothing(ds) ==
    \A k \in 1..2 : Strip(ds[k], WS) = <<>> \/ CleanSimple(ds[k]) = <<>>

\* the text after lines 210-211
AfterRules(t, cfg) ==
    IF Truthy(cfg) THEN apply_cleaning_rules(t, cfg).text ELSE t

\* C2 as stated: the result is never empty, and it is exactly the sentinel
\* whenever all fields are empty, the fallback cleaning leaves nothing, or
\* the text after the rules is empty.
C2_SentinelExact ==
    pc = "returned" =>
        /\ result # <<>>
        /\ ( \/ path = "early"
             \/ (path = "fallback" /\ FallbackLeavesNothing(desc))
             \/ (path # "early"
                 /\ AfterRules(Composed(desc, parts, rules_config),
                               rules_config) = <<>>) )
           => result = SENTINEL

\* C2 as amended: the result is never empty; it is exactly the sentinel when
\* all fields are empty or the text after the rules is empty; when the
\* fallback cleaning leaves nothing it is the sentinel passed through the
\* rule engine (the sentinel itself if that leaves nothing).
C2_NonEmpty ==
    pc = "returned" =>
        /\ result # <<>>
        /\ path = "early" => result = SENTINEL
        /\ ( path # "early"
             /\ AfterRules(Composed(desc, parts, rules_config),
                           rules_config) = <<>> )
           => result = SENTINEL
        /\ (path = "fallback" /\ FallbackLeavesNothing(desc))
           => LET t == AfterRules(SENTINEL, rules_config)
              IN  result = IF t = <<>> THEN SENTINEL ELSE t

\* C2's case: the fallback cleaning left nothing and the rules rewrote the
\* sentinel, so the result is non-empty but not the sentinel
C2_Witness ==
    /\ pc = "returned" /\ path = "fallback"
    /\ FallbackLeavesNothing(desc)
    /\ result # SENTINEL /\ result # <<>>

\* equality after whitespace normalisation
Normalize(t) == Strip(CollapseSpaces(t), WS)
WsEqual(a, b) == Normalize(a) = Normalize(b)

\* the cleaned reason was appended to parts
MotifAppended ==
    Len(parts) > (IF Strip(desc[1], WS) # <<>> THEN 1 ELSE 0)
                 + (IF ExtractQrr(FullDesc(desc)) # <<>> THEN 1 ELSE 0)

\* C6: the cleaned reason is appended to parts only if it is non-empty and
\* differs from the beneficiary under case-sensitive, whitespace-normalised
\* equality; a reason equal to the beneficiary in that sense is left out.
C6_Dedup ==
    (pc \in {"compose", "rules", "return", "returned", "raised"}
     /\ path # "early")
    => LET beneficiary == Beneficiary(desc[1])
           motif == CleanMotif(ExtractMotif(FullDesc(desc)))
       IN  /\ MotifAppended => (motif # <<>> /\ ~WsEqual(motif, beneficiary))
           /\ WsEqual(motif, beneficiary) => ~MotifAppended

\* C7: apply_cleaning_rules and clean_description return a string for every
\* input and every loaded configuration; no call ends in a raised error.
C7_Total == pc # "raised"

-----------------------------------------------------------------------------
(* clean_amount, format_date, load_cleaning_rules *)

\* float(s) for the amount strings of the model, in hundredths; "abc" is a
\* string float() rejects
AmountStrings == {"", "0.00", "12.50", "-12.50", "7.00", "-3.00", "abc"}
IsFloat(a) == a \in {"0.00", "12.50", "-12.50", "7.00", "-3.00"}
FloatOf(a) ==
    CASE a = "0.00" -> 0
      [] a = "12.50" -> 1250
      [] a = "-12.50" -> -1250
      [] a = "7.00" -> 700
      [] a = "-3.00" -> -300

Abs(n) == IF n < 0 THEN -n ELSE n

\* clean_amount(amount_str), lines 16-21
clean_amount(a) ==
    IF a = "" THEN [exc |-> "", val |-> 0]
    ELSE IF IsFloat(a) THEN [exc |-> "", val |-> FloatOf(a)]
    ELSE [exc |-> "ValueError", val |-> 0]

\* the posting dates of the model: empty, one that strptime accepts, and one
\* it rejects (no such day)
DateStrings == {"", "2024-01-31", "2024-02-30"}
ParsesAsIsoDate(d) == d = "2024-01-31"
SwissDate(d) == CASE d = "2024-01-31" -> "31.01.2024"

\* format_date(date_str), lines 24-32
format_date(d) ==
    IF d = "" THEN ""
    ELSE IF ParsesAsIsoDate(d) THEN SwissDate(d)
    ELSE d

\* cleaning_rules.json: absent, present but not readable, present but not
\* JSON, or JSON holding the value `value`
JsonList == [kind |-> "list"]
Resources ==
    { [state |-> "absent"], [state |-> "unreadable"],
      [state |-> "syntax_error"] }
    \cup
    { [state |-> "json", value |-> v] :
        v \in {CfgTx, CfgBadPattern, EmptyConfig, JsonList} }

\* load_cleaning_rules(), lines 35-69: the value returned and whether the
\* warning was printed
load_cleaning_rules(res) ==
    IF res.state = "absent"
    THEN [value |-> default_rules, warned |-> FALSE]
    ELSE IF res.state = "json"
    THEN [value |-> res.value, warned |-> FALSE]
    ELSE [value |-> default_rules, warned |-> TRUE]

-----------------------------------------------------------------------------
(* convert_ubs_to_cresus *)

BANK_ACCOUNT == "1020"
CONTRA_ACCOUNT == "2000"

RowDescs ==
    { <<BOB, MOTIF_LABEL \o <<" ", "x">>, <<>>>>,
      <<<<>>, <<>>, <<>>>> }

Rows ==
    [debit_str : {"", "12.50", "-12.50", "abc"},
     credit_str : {"", "0.00", "7.00", "-3.00"},
     posting_date : DateStrings,
     transaction_num : {"T1"},
     descs : RowDescs]

Skip(reason) == [kind |-> "skip", reason |-> reason]

\* lines 296-317: the transaction appended
Transaction(r, debit, credit, date, description) ==
    [kind |-> "transaction",
     date |-> date,
     debit_account |-> IF credit > 0 THEN BANK_ACCOUNT ELSE CONTRA_ACCOUNT,
     credit_account |-> IF credit > 0 THEN CONTRA_ACCOUNT ELSE BANK_ACCOUNT,
     doc_number |-> r.transaction_num,
     description |-> description,
     amount |-> IF credit > 0 THEN credit ELSE Abs(debit)]

\* lines 268-291: the outcome of a record before its description is built:
\* a skip reason, or "" when the record goes on to line 294
Precheck(r) ==
    LET d == IF r.debit_str # "" THEN clean_amount(r.debit_str)
             ELSE [exc |-> "", val |-> 0]
        c == IF r.credit_str # "" THEN clean_amount(r.credit_str)
             ELSE [exc |-> "", val |-> 0]
    IN  IF d.exc # "" \/ c.exc # "" THEN "Error"
        ELSE IF Abs(d.val) = 0 /\ c.val = 0 THEN "No amount"
        ELSE IF format_date(r.posting_date) = "" THEN "Invalid date"
        ELSE ""

\* lines 268-285: debit = abs(clean_amount(...)), credit = clean_amount(...)
DebitOf(r) ==
    IF r.debit_str # "" THEN Abs(clean_amount(r.debit_str).val) ELSE 0
CreditOf(r) ==
    IF r.credit_str # "" THEN clean_amount(r.credit_str).val ELSE 0

InitConvert ==
    /\ pc = "load"
    /\ resource \in Resources
    /\ rules_config = NoneConfig
    /\ warned = FALSE
    /\ row = NoRow /\ nread = 0
    /\ log = <<>> /\ transactions = <<>> /\ skipped = <<>>
    /\ exc = ""
    /\ text = <<>> /\ phase = "" /\ idx = 1 /\ input = <<>> /\ first = <<>>
    /\ pass = 1
    /\ desc = NoDesc /\ parts = <<>> /\ path = "" /\ result = <<>>
    /\ applied = FALSE

\* lines 226-228: the rules are loaded; rules_config.get fails on a value
\* that is no mapping and the error leaves convert_ubs_to_cresus
ConvertLoad ==
    /\ pc = "load"
    /\ LET loaded == load_cleaning_rules(resource)
       IN  /\ rules_config' = loaded.value
           /\ warned' = loaded.warned
           /\ IF loaded.value.kind = "list"
              THEN pc' = "aborted" /\ exc' = "AttributeError"
              ELSE pc' = "loop" /\ UNCHANGED exc
    /\ UNCHANGED <<resource, row, nread, log, transactions, skipped>>
    /\ UNCHANGED <<apply_vars, desc_vars>>

\* line 256: the reader yields the next record
ConvertRead ==
    /\ pc = "loop"
    /\ nread < MaxRows
    /\ row' \in Rows
    /\ nread' = nread + 1
    /\ pc' = "row"
    /\ UNCHANGED <<rules_config, exc, resource, warned, log, transactions,
                   skipped>>
    /\ UNCHANGED <<apply_vars, desc_vars>>

\* lines 257-294: amounts and date; the record is skipped, or
\* clean_description is entered with its three description fields
ConvertRow ==
    /\ pc = "row"
    /\ LET reason == Precheck(row)
       IN  IF reason # ""
           THEN /\ log' = Append(log, [row |-> row, outcome |-> Skip(reason)])
                /\ skipped' = Append(skipped, reason)
                /\ pc' = "loop"
                /\ UNCHANGED desc_vars
           ELSE /\ desc' = row.descs
                /\ parts' = <<>> /\ path' = "" /\ result' = <<>>
                /\ applied' = FALSE
                /\ pc' = "extract"
                /\ UNCHANGED <<log, skipped>>
    /\ UNCHANGED <<rules_config, exc, resource, warned, row, nread,
                   transactions>>
    /\ UNCHANGED apply_vars

\* lines 296-320: clean_description has returned and the transaction is
\* appended, or it has raised and the handler records the record as skipped
ConvertEmit ==
    /\ pc \in {"returned", "raised"}
    /\ row # NoRow
    /\ LET out == IF pc = "raised" THEN Skip("Error")
                  ELSE Transaction(row, DebitOf(row), CreditOf(row),
                                   format_date(row.posting_date), result)
       IN  /\ log' = Append(log, [row |-> row, outcome |-> out])
           /\ IF out.kind = "transaction"
              THEN /\ transactions' = Append(transactions, out)
                   /\ UNCHANGED skipped
              ELSE /\ skipped' = Append(skipped, out.reason)
                   /\ UNCHANGED transactions
    /\ exc' = ""
    /\ pc' = "loop"
    /\ UNCHANGED <<rules_config, resource, warned, row, nread>>
    /\ UNCHANGED <<apply_vars, desc_vars>>

\* the reader is exhausted; lines 322-351 write the transactions
ConvertWrite ==
    /\ pc = "loop"
    /\ pc' = "written"
    /\ UNCHANGED <<rules_config, exc, conv_vars>>
    /\ UNCHANGED <<apply_vars, desc_vars>>

NextConvert ==
    \/ ConvertLoad
    \/ ConvertRead
    \/ ConvertRow
    \/ DescExtract
    \/ DescCompose
    \/ DescRules
    \/ DescReturn
    \/ ConvertEmit
    \/ ConvertWrite

SpecConvert == InitConvert /\ [][NextConvert]_vars

-----------------------------------------------------------------------------
(* Claims about load_cleaning_rules and convert_ubs_to_cresus, checked     *)
(* under SpecConvert                                                        *)

Loaded == pc # "load"

\* C8: load_cleaning_rules always returns a usable configuration: the
\* default when the resource is absent or unreadable, and, with a warning,
\* the default when the resource does not parse as the expected structure.
C8_LoadUsable ==
    Loaded =>
        /\ rules_config.kind \in {"dict", "empty"}
        /\ resource.state \in {"absent", "unreadable"}
           => rules_config = default_rules
        /\ ( \/ resource.state = "syntax_error"
             \/ (resource.state = "json"
                 /\ resource.value.kind \notin {"dict", "empty"}) )
           => (warned /\ rules_config = default_rules)

BadAmount(r) ==
    \/ (r.debit_str # "" /\ ~IsFloat(r.debit_str))
    \/ (r.credit_str # "" /\ ~IsFloat(r.credit_str))
BadDate(r) == ~ParsesAsIsoDate(r.posting_date)

IsTransaction(e) == e.outcome.kind = "transaction"

\* C9: every record read has produced exactly one transaction or one skip
\* entry; a record with a bad amount or a bad date is recorded as a skip;
\* the transactions are in input order.
C9_EveryRecordAccounted ==
    pc \in {"loop", "written"} =>
        /\ Len(transactions) + Len(skipped) = nread
        /\ Len(log) = nread
        /\ \A k \in 1..Len(log) :
               (BadAmount(log[k].row) \/ BadDate(log[k].row))
               => log[k].outcome.kind = "skip"
        /\ LET emitted == SelectSeq(log, IsTransaction)
           IN  transactions = [k \in 1..Len(emitted) |-> emitted[k].outcome]

\* C10: every emitted transaction has a strictly positive amount: the
\* credit with accounts (1020, 2000) when credit > 0, otherwise the absolute
\* debit with accounts (2000, 1020); a record whose amount would be zero is
\* skipped with "No amount".
C10_PositiveAmount ==
    \A k \in 1..Len(log) :
        LET r == log[k].row
            out == log[k].outcome
            amount == IF CreditOf(r) > 0 THEN CreditOf(r) ELSE DebitOf(r)
        IN  /\ out.kind = "transaction" =>
                /\ out.amount > 0
                /\ out.amount = amount
                /\ <<out.debit_account, out.credit_account>> =
                       IF CreditOf(r) > 0 THEN <<"1020", "2000">>
                       ELSE <<"2000", "1020">>
            /\ (~BadAmount(r) /\ amount = 0) =>
                /\ out.kind = "skip"
                /\ ParsesAsIsoDate(r.posting_date) => out = Skip("No amount")

====
